---- MODULE Spec2Model ----
(***************************************************************************)
(* A model of salt/modules/localemod.py: the locale execution module.      *)
(*                                                                         *)
(* Text is modelled as a sequence of one-character strings, so that the    *)
(* parsing and formatting the module does (split, strip, replace, regular  *)
(* expression match, format) is computed character by character.           *)
(* The collaborators the module calls through __salt__ and salt.utils      *)
(* (file.replace, file.search, cmd.run, which, the locale string helpers)  *)
(* and the programs it runs (localectl, grep, update-locale, eselect) are  *)
(* modelled from their documented behaviour.                               *)
(***************************************************************************)
EXTENDS Integers, Sequences, FiniteSets, TLC

(***************************************************************************)
(* Python string primitives.                                               *)
(***************************************************************************)
NL == "\n"
QUOTE == "\""
SPACE == " "

\* The control characters Python names, and the two Latin-1 blanks.
Ctl == [bel |-> "", bs |-> "", vt |-> "", ff |-> "\f",
        cr |-> "\r", fs |-> "", gs |-> "", rs |-> "",
        us |-> "", nel |-> "", nbsp |-> " "]

\* The characters str.isspace() holds for, and so str.strip() removes and
\* \s matches.  (The blanks from U+1680 on cannot be written in a string
\* of the model.)
Whitespace ==
    {SPACE, NL, "\t", Ctl.vt, Ctl.ff, Ctl.cr, Ctl.fs, Ctl.gs, Ctl.rs, Ctl.us,
     Ctl.nel, Ctl.nbsp}

UpperAlphabet ==
    <<"A","B","C","D","E","F","G","H","I","J","K","L","M",
      "N","O","P","Q","R","S","T","U","V","W","X","Y","Z">>

LowerAlphabet ==
    <<"a","b","c","d","e","f","g","h","i","j","k","l","m",
      "n","o","p","q","r","s","t","u","v","w","x","y","z">>

UpperLetters == {UpperAlphabet[k] : k \in 1..Len(UpperAlphabet)}

\* str.upper() / str.lower() of one character (of an ASCII letter: the
\* other characters of the model have no case).
UpperOf(c) ==
    IF \E k \in 1..Len(LowerAlphabet) : LowerAlphabet[k] = c
    THEN UpperAlphabet[CHOOSE k \in 1..Len(LowerAlphabet) : LowerAlphabet[k] = c]
    ELSE c

LowerOf(c) ==
    IF c \in UpperLetters
    THEN LowerAlphabet[CHOOSE k \in 1..Len(UpperAlphabet) : UpperAlphabet[k] = c]
    ELSE c

Upper(s) == [i \in 1..Len(s) |-> UpperOf(s[i])]
Lower(s) == [i \in 1..Len(s) |-> LowerOf(s[i])]

\* The tail of s from index i on (s[i-1:] in Python).
From(s, i) == SubSeq(s, i, Len(s))

\* The first index of character c in s, or 0.
IndexOf(s, c) ==
    IF \E i \in 1..Len(s) : s[i] = c
    THEN CHOOSE i \in 1..Len(s) : s[i] = c /\ \A j \in 1..(i - 1) : s[j] # c
    ELSE 0

\* s.split(c, 1): one piece when c is absent, else the text before and after
\* the first c.
SplitOnce(s, c) ==
    LET i == IndexOf(s, c)
    IN  IF i = 0 THEN <<s>> ELSE <<SubSeq(s, 1, i - 1), From(s, i + 1)>>

\* s.split(c): every piece between occurrences of c (never empty as a list).
RECURSIVE Split(_, _)
Split(s, c) ==
    LET i == IndexOf(s, c)
    IN  IF i = 0 THEN <<s>>
        ELSE <<SubSeq(s, 1, i - 1)>> \o Split(From(s, i + 1), c)

\* s.splitlines(): the lines of s, no empty last line after a final line
\* end, and no line at all for the empty string.  ends holds the characters
\* that end a line; CR followed by NL ends it once.  (U+2028 and U+2029
\* cannot be written in a string of the model.)
RECURSIVE SplitLines(_)
SplitLines(s) ==
    LET ends == {NL, Ctl.cr, Ctl.vt, Ctl.ff, Ctl.fs, Ctl.gs, Ctl.rs, Ctl.nel}
        at == {k \in 1..Len(s) : s[k] \in ends}
        i == CHOOSE k \in at : \A j \in at : k <= j
        crlf == s[i] = Ctl.cr /\ i < Len(s) /\ s[i + 1] = NL
    IN  IF s = <<>> THEN <<>>
        ELSE IF at = {} THEN <<s>>
        ELSE <<SubSeq(s, 1, i - 1)>>
             \o SplitLines(From(s, IF crlf THEN i + 2 ELSE i + 1))

\* s.strip(): leading and trailing whitespace removed.
RECURSIVE LStrip(_)
LStrip(s) ==
    IF s # <<>> /\ s[1] \in Whitespace THEN LStrip(Tail(s)) ELSE s

RECURSIVE RStrip(_)
RStrip(s) ==
    IF s # <<>> /\ s[Len(s)] \in Whitespace
    THEN RStrip(SubSeq(s, 1, Len(s) - 1)) ELSE s

Strip(s) == RStrip(LStrip(s))

\* s.replace(c, ''): every occurrence of character c removed.
Remove(s, c) == SelectSeq(s, LAMBDA x : x # c)

\* sep.join(parts).
RECURSIVE Join(_, _)
Join(parts, sep) ==
    IF parts = <<>> THEN <<>>
    ELSE IF Len(parts) = 1 THEN parts[1]
    ELSE parts[1] \o sep \o Join(Tail(parts), sep)

StartsWith(s, p) == Len(s) >= Len(p) /\ SubSeq(s, 1, Len(p)) = p

(***************************************************************************)
(* Literals of the source, as text.                                        *)
(***************************************************************************)
LANG == <<"L","A","N","G">>
LANG_EQ == <<"L","A","N","G","=">>
SYSTEM_LOCALE == <<"S","y","s","t","e","m"," ","L","o","c","a","l","e">>

(***************************************************************************)
(* A Python dict as the sequence of its <<key, value>> items.              *)
(***************************************************************************)
DictHas(d, k) == \E i \in 1..Len(d) : d[i][1] = k

DictGet(d, k, default) ==
    IF DictHas(d, k)
    THEN d[CHOOSE i \in 1..Len(d) : d[i][1] = k][2]
    ELSE default

DictSet(d, k, v) ==
    IF DictHas(d, k)
    THEN [i \in 1..Len(d) |-> IF d[i][1] = k THEN <<k, v>> ELSE d[i]]
    ELSE Append(d, <<k, v>>)

DictItems(d) == {d[i] : i \in 1..Len(d)}

(***************************************************************************)
(* _parse_localectl                                                        *)
(***************************************************************************)
KeyChars == UpperLetters \cup {"_"}

\* The length of the longest prefix of s made of [A-Z_] characters.
RECURSIVE KeyPrefixLen(_)
KeyPrefixLen(s) ==
    IF s # <<>> /\ s[1] \in KeyChars THEN 1 + KeyPrefixLen(Tail(s)) ELSE 0

\* re.match('^([A-Z_]+)=(.*)$', s) succeeds.
ParamMatches(s) ==
    LET n == KeyPrefixLen(s)
    IN  n >= 1 /\ n < Len(s) /\ s[n + 1] = "="

\* The groups (key, val) of the match.
ParamGroups(s) ==
    LET n == KeyPrefixLen(s)
    IN  <<SubSeq(s, 1, n), From(s, n + 2)>>

\* cols = [x.strip() for x in line.split(':', 1)]
LineCols(line) ==
    LET parts == SplitOnce(line, ":")
    IN  [i \in 1..Len(parts) |-> Strip(parts[i])]

\* One pass of the loop body over a line.  st is the loop state: cur
\* (cur_param), bound (cur_param has been assigned), ret (the dict) and
\* raised (reading the unassigned cur_param raised UnboundLocalError).
ParseLine(st, line) ==
    LET cols  == LineCols(line)
        bound == st.bound \/ Len(cols) > 1
        cur   == IF Len(cols) > 1 THEN cols[1] ELSE st.cur
        rest  == IF Len(cols) > 1 THEN cols[2] ELSE cols[1]
    IN  IF st.raised THEN st
        ELSE IF ~bound
        THEN [st EXCEPT !.raised = TRUE]
        ELSE IF cur = SYSTEM_LOCALE /\ ParamMatches(rest)
        THEN [cur |-> cur, bound |-> TRUE,
              ret |-> DictSet(st.ret, ParamGroups(rest)[1],
                              Remove(ParamGroups(rest)[2], QUOTE)),
              raised |-> FALSE]
        ELSE [st EXCEPT !.cur = cur, !.bound = TRUE]

RECURSIVE ParseLines(_, _)
ParseLines(st, lines) ==
    IF lines = <<>> THEN st
    ELSE ParseLines(ParseLine(st, lines[1]), Tail(lines))

\* _parse_localectl on the output of `localectl`: [raised, ret].
parse_localectl(out) ==
    LET st == ParseLines([cur |-> <<>>, bound |-> FALSE, ret |-> <<>>,
                          raised |-> FALSE],
                         SplitLines(out))
    IN  [raised |-> st.raised, ret |-> st.ret]

(***************************************************************************)
(* Regular expressions, as the re module reads them.  A pattern is text;   *)
(* it is parsed into a tree and matched by backtracking, the alternatives  *)
(* tried in the order re tries them, so that the first result is the match *)
(* re reports.  A pattern built by format() from a locale string is the    *)
(* text that format() yields: every metacharacter of the string acts.      *)
(*                                                                         *)
(* The language read: literals, '.', '^', '$', '|', the quantifiers        *)
(* '*' '+' '?' '{m,n}' with their lazy ('?') and possessive ('+') forms,   *)
(* character sets with ranges, negation and class escapes, the escapes     *)
(* \A \Z \b \B \d \D \s \S \w \W \a \f \n \r \t \v, escaped punctuation,   *)
(* group references \1..\99, and the groups (...), (?:...), (?=...),       *)
(* (?!...), (?>...) and (?#...).  Named groups, look-behind, conditional   *)
(* groups, inline flags and numeric character escapes (\x \u \U \N, octal) *)
(* are not read: a pattern holding one is reported as UNMODELLED.          *)
(***************************************************************************)
BACKSLASH == "\\"

Digits == {"0","1","2","3","4","5","6","7","8","9"}

AsciiLetters ==
    UpperLetters \cup {LowerAlphabet[k] : k \in 1..Len(LowerAlphabet)}

\* The characters \w matches.
WordChars == AsciiLetters \cup Digits \cup {"_"}

\* ord(c), for the characters the model can hold: low and high are the
\* ASCII characters of codes 32 to 95 and 97 to 126, in the order of their
\* codes.  (The character of code 96 cannot be written in a string of the
\* model.)
Code(c) ==
    LET low == <<" ","!","\"","#","$","%","&","'","(",")","*","+",",","-",
                 ".","/","0","1","2","3","4","5","6","7","8","9",":",";",
                 "<","=",">","?","@">>
                \o UpperAlphabet \o <<"[","\\","]","^","_">>
        high == LowerAlphabet \o <<"{","|","}","~">>
    IN  IF IndexOf(low, c) # 0 THEN 31 + IndexOf(low, c)
        ELSE IF IndexOf(high, c) # 0 THEN 96 + IndexOf(high, c)
        ELSE CASE c = Ctl.bel -> 7 [] c = Ctl.bs -> 8 [] c = "\t" -> 9
               [] c = NL -> 10 [] c = Ctl.vt -> 11 [] c = Ctl.ff -> 12
               [] c = Ctl.cr -> 13 [] c = Ctl.fs -> 28 [] c = Ctl.gs -> 29
               [] c = Ctl.rs -> 30 [] c = Ctl.us -> 31 [] c = Ctl.nel -> 133
               [] c = Ctl.nbsp -> 160

\* int(p[a:b-1]) for a run of digits.
RECURSIVE IntOf(_, _, _)
IntOf(p, a, b) ==
    IF a >= b THEN 0 ELSE 10 * IntOf(p, a, b - 1) + (Code(p[b - 1]) - Code("0"))

\* The first index from j on that holds no digit.
RECURSIVE DigitsEnd(_, _)
DigitsEnd(p, j) ==
    IF j <= Len(p) /\ p[j] \in Digits THEN DigitsEnd(p, j + 1) ELSE j

\* The character at index j of p, or "" past its end.
At(p, j) == IF j >= 1 /\ j <= Len(p) THEN p[j] ELSE ""

\* A parsed pattern is a tree of nodes [t |-> kind, ...]: "lit" (c), "any",
\* "at" (where), "in" (neg, items), "seq" (items), "alt" (left, right),
\* "rep" (min, max, mode, item), "group" (n, item), "look" (neg, item),
\* "atomic" (item), "ref" (n) and "skip" (a comment).  The members of a
\* character set are [k, c, lo, hi]: a character ("lit"), a range of codes
\* ("range") or a class ("cat").

\* The result of a parsing step: the error ("" when there is none), the
\* node read, the index after it and the number of groups opened so far.
Parsed(node, i, g) == [err |-> "", node |-> node, i |-> i, g |-> g]
Failed(err) == [err |-> err, node |-> [t |-> "skip"], i |-> 0, g |-> 0]

UNMODELLED == "unmodelled"

\* The characters an escape of a letter stands for.
EscapeChar(c) ==
    CASE c = "a" -> Ctl.bel [] c = "f" -> Ctl.ff [] c = "n" -> NL
      [] c = "r" -> Ctl.cr [] c = "t" -> "\t" [] c = "v" -> Ctl.vt
      [] c = BACKSLASH -> BACKSLASH

\* The quantifier at index i of p, if any: [ok, min, max, i], max being -1
\* for no upper bound.  A '{' is one when it opens '{m}', '{m,}', '{,n}'
\* or '{m,n}'.
Quantifier(p, i) ==
    LET j1 == DigitsEnd(p, i + 1)
        comma == At(p, j1) = ","
        j2 == IF comma THEN DigitsEnd(p, j1 + 1) ELSE j1
        lo == IF j1 > i + 1 THEN IntOf(p, i + 1, j1) ELSE 0
        hi == IF comma
              THEN IF j2 > j1 + 1 THEN IntOf(p, j1 + 1, j2) ELSE -1
              ELSE IF j1 > i + 1 THEN lo ELSE -1
        none == [ok |-> FALSE, min |-> 0, max |-> 0, i |-> i]
    IN  CASE At(p, i) = "*" -> [ok |-> TRUE, min |-> 0, max |-> -1, i |-> i + 1]
          [] At(p, i) = "+" -> [ok |-> TRUE, min |-> 1, max |-> -1, i |-> i + 1]
          [] At(p, i) = "?" -> [ok |-> TRUE, min |-> 0, max |-> 1, i |-> i + 1]
          [] At(p, i) = "{" ->
               IF At(p, i + 1) = "}" \/ At(p, j2) # "}" THEN none
               ELSE [ok |-> TRUE, min |-> lo, max |-> hi, i |-> j2 + 1]
          [] OTHER -> none

\* One member of a character set, read at index i: [err, item, i].
SetMember(p, i) ==
    LET c == At(p, i)
        d == At(p, i + 1)
        lit(x, j) == [err |-> "", i |-> j,
                      item |-> [k |-> "lit", c |-> x, lo |-> 0, hi |-> 0]]
        bad(err) == [err |-> err, i |-> i,
                     item |-> [k |-> "lit", c |-> "", lo |-> 0, hi |-> 0]]
    IN  IF c # BACKSLASH THEN lit(c, i + 1)
        ELSE IF d = "" THEN bad("bad escape (end of pattern)")
        ELSE IF d \in {"a", "f", "n", "r", "t", "v", BACKSLASH}
        THEN lit(EscapeChar(d), i + 2)
        ELSE IF d = "b" THEN lit(Ctl.bs, i + 2)
        ELSE IF d \in {"d", "D", "s", "S", "w", "W"}
        THEN [err |-> "", i |-> i + 2,
              item |-> [k |-> "cat", c |-> d, lo |-> 0, hi |-> 0]]
        ELSE IF d \in {"x", "u", "U", "N"} \cup (Digits \ {"8", "9"})
        THEN bad(UNMODELLED)
        ELSE IF d \in AsciiLetters \cup Digits THEN bad("bad escape")
        ELSE lit(d, i + 2)

\* The members of a character set from index i on, up to its ']'; first
\* tells that no member has been read yet (a ']' is then a member).
RECURSIVE SetMembers(_, _, _, _)
SetMembers(p, i, items, first) ==
    IF i > Len(p)
    THEN [err |-> "unterminated character set", items |-> items, i |-> i]
    ELSE IF p[i] = "]" /\ ~first
    THEN [err |-> "", items |-> items, i |-> i + 1]
    ELSE LET m1 == SetMember(p, i)
         IN  IF m1.err # "" THEN [err |-> m1.err, items |-> items, i |-> i]
             ELSE IF At(p, m1.i) # "-"
             THEN SetMembers(p, m1.i, Append(items, m1.item), FALSE)
             ELSE IF m1.i + 1 > Len(p)
             THEN [err |-> "unterminated character set", items |-> items,
                   i |-> i]
             ELSE IF p[m1.i + 1] = "]"
             THEN [err |-> "",
                   items |-> items \o <<m1.item,
                                         [m1.item EXCEPT !.k = "lit", !.c = "-"]>>,
                   i |-> m1.i + 2]
             ELSE LET m2 == SetMember(p, m1.i + 1)
                  IN  IF m2.err # ""
                      THEN [err |-> m2.err, items |-> items, i |-> i]
                      ELSE IF m1.item.k # "lit" \/ m2.item.k # "lit"
                              \/ Code(m2.item.c) < Code(m1.item.c)
                      THEN [err |-> "bad character range", items |-> items,
                            i |-> i]
                      ELSE SetMembers(p, m2.i,
                               Append(items, [k |-> "range", c |-> "",
                                              lo |-> Code(m1.item.c),
                                              hi |-> Code(m2.item.c)]),
                               FALSE)

\* An escape at index i, outside a character set; open holds the numbers of
\* the groups that are not closed yet.
ParseEscape(p, i, g, open) ==
    LET c == At(p, i + 1)
        two == At(p, i + 2) \in Digits
        n == IF two THEN IntOf(p, i + 1, i + 3) ELSE IntOf(p, i + 1, i + 2)
    IN  IF c = "" THEN Failed("bad escape (end of pattern)")
        ELSE IF c \in {"A", "Z", "b", "B"}
        THEN Parsed([t |-> "at", where |-> c], i + 2, g)
        ELSE IF c \in {"d", "D", "s", "S", "w", "W"}
        THEN Parsed([t |-> "in", neg |-> FALSE,
                     items |-> <<[k |-> "cat", c |-> c, lo |-> 0, hi |-> 0]>>],
                    i + 2, g)
        ELSE IF c \in {"a", "f", "n", "r", "t", "v", BACKSLASH}
        THEN Parsed([t |-> "lit", c |-> EscapeChar(c)], i + 2, g)
        ELSE IF c \in {"x", "u", "U", "N", "0"} THEN Failed(UNMODELLED)
        ELSE IF c \in Digits
        THEN IF two /\ c \in (Digits \ {"8", "9"}) /\ At(p, i + 2) \in (Digits \ {"8", "9"})
                /\ At(p, i + 3) \in (Digits \ {"8", "9"})
             THEN Failed(UNMODELLED)
             ELSE IF n > g THEN Failed("invalid group reference")
             ELSE IF n \in open THEN Failed("cannot refer to an open group")
             ELSE Parsed([t |-> "ref", n |-> n], IF two THEN i + 3 ELSE i + 2, g)
        ELSE IF c \in AsciiLetters THEN Failed("bad escape")
        ELSE Parsed([t |-> "lit", c |-> c], i + 2, g)

\* The index of the first character ch of p from j on, or 0; a backslash
\* and the character after it are read as one.
RECURSIVE Until(_, _, _)
Until(p, j, ch) ==
    IF j > Len(p) THEN 0
    ELSE IF p[j] = ch THEN j
    ELSE IF p[j] = BACKSLASH THEN Until(p, j + 2, ch)
    ELSE Until(p, j + 1, ch)

RECURSIVE ParseAlt(_, _, _, _)
RECURSIVE ParseBranch(_, _, _, _, _)
RECURSIVE ParseGroup(_, _, _, _)

\* The body of a group that starts at index j, up to its ')'; kind tells
\* the node the group makes of the node of its body.  A capturing group is
\* the last one opened, g.
ParseBody(p, j, g, open, kind) ==
    LET close(r) ==
            IF r.err # "" THEN r
            ELSE IF At(p, r.i) # ")"
            THEN Failed("missing ), unterminated subpattern")
            ELSE Parsed(CASE kind = "capture" ->
                               [t |-> "group", n |-> g, item |-> r.node]
                          [] kind = "plain" -> r.node
                          [] kind = "ahead" ->
                               [t |-> "look", neg |-> FALSE, item |-> r.node]
                          [] kind = "notAhead" ->
                               [t |-> "look", neg |-> TRUE, item |-> r.node]
                          [] kind = "atomic" ->
                               [t |-> "atomic", item |-> r.node],
                        r.i + 1, r.g)
    IN  close(ParseAlt(p, j, g, open))

\* A group '(...)' at index i.
ParseGroup(p, i, g, open) ==
    LET e == At(p, i + 2)
        comment(end) ==
            IF end = 0 THEN Failed("missing ), unterminated comment")
            ELSE Parsed([t |-> "skip"], end + 1, g)
    IN  IF At(p, i + 1) # "?"
        THEN ParseBody(p, i + 1, g + 1, open \cup {g + 1}, "capture")
        ELSE IF e = "" THEN Failed("unexpected end of pattern")
        ELSE IF e \in {":", "=", "!", ">"}
        THEN ParseBody(p, i + 3, g, open,
                       CASE e = ":" -> "plain" [] e = "=" -> "ahead"
                         [] e = "!" -> "notAhead" [] e = ">" -> "atomic")
        ELSE IF e = "#" THEN comment(Until(p, i + 3, ")"))
        ELSE IF e \in {"P", "<", "(", "-", "a", "i", "L", "m", "s", "u", "x"}
        THEN Failed(UNMODELLED)
        ELSE Failed("unknown extension")

\* One item at index i that is no quantifier.
ParseAtom(p, i, g, open) ==
    LET c == p[i]
        neg == At(p, i + 1) = "^"
        charset(set) ==
            IF set.err # "" THEN Failed(set.err)
            ELSE Parsed([t |-> "in", neg |-> neg, items |-> set.items],
                        set.i, g)
    IN  IF c = "." THEN Parsed([t |-> "any"], i + 1, g)
        ELSE IF c = "^" THEN Parsed([t |-> "at", where |-> "bol"], i + 1, g)
        ELSE IF c = "$" THEN Parsed([t |-> "at", where |-> "eol"], i + 1, g)
        ELSE IF c = BACKSLASH THEN ParseEscape(p, i, g, open)
        ELSE IF c = "["
        THEN charset(SetMembers(p, IF neg THEN i + 2 ELSE i + 1, <<>>, TRUE))
        ELSE IF c = "(" THEN ParseGroup(p, i, g, open)
        ELSE Parsed([t |-> "lit", c |-> c], i + 1, g)

\* The items of one alternative from index i on, up to a '|', a ')' or the
\* end of the pattern; items holds the ones read so far.
ParseBranch(p, i, g, open, items) ==
    LET last == items[Len(items)]
        repeat(q, mode) ==
            IF q.max # -1 /\ q.max < q.min
            THEN Failed("min repeat greater than max repeat")
            ELSE IF items = <<>> \/ last.t = "at"
            THEN Failed("nothing to repeat")
            ELSE IF last.t = "rep" THEN Failed("multiple repeat")
            ELSE ParseBranch(p, IF mode = "greedy" THEN q.i ELSE q.i + 1,
                     g, open,
                     [items EXCEPT ![Len(items)] =
                         [t |-> "rep", min |-> q.min, max |-> q.max,
                          mode |-> mode, item |-> last]])
        item(a) ==
            IF a.err # "" THEN a
            ELSE ParseBranch(p, a.i, a.g, open,
                     IF a.node.t = "skip" THEN items
                     ELSE Append(items, a.node))
        step(q) ==
            IF q.ok
            THEN repeat(q, IF At(p, q.i) = "?" THEN "lazy"
                           ELSE IF At(p, q.i) = "+" THEN "possessive"
                           ELSE "greedy")
            ELSE item(ParseAtom(p, i, g, open))
    IN  IF i > Len(p) \/ p[i] \in {"|", ")"}
        THEN Parsed([t |-> "seq", items |-> items], i, g)
        ELSE step(Quantifier(p, i))

\* The alternatives from index i on, up to a ')' or the end of the pattern.
ParseAlt(p, i, g, open) ==
    LET either(b, r) ==
            IF r.err # "" THEN r
            ELSE Parsed([t |-> "alt", left |-> b.node, right |-> r.node],
                        r.i, r.g)
        first(b) ==
            IF b.err # "" \/ At(p, b.i) # "|" THEN b
            ELSE either(b, ParseAlt(p, b.i + 1, b.g, open))
    IN  first(ParseBranch(p, i, g, open, <<>>))

\* re.compile(p): [err, node, groups]; err is "" when p compiles.
Compile(p) ==
    LET whole(r) ==
            IF r.err # "" THEN [err |-> r.err, node |-> r.node, groups |-> 0]
            ELSE IF r.i <= Len(p)
            THEN [err |-> "unbalanced parenthesis", node |-> r.node,
                  groups |-> 0]
            ELSE [err |-> "", node |-> r.node, groups |-> r.g]
    IN  whole(ParseAlt(p, 1, 0, {}))

\* Whether character ch is of class cat (\d \s \w and their complements).
CatHas(cat, ch) ==
    CASE cat = "d" -> ch \in Digits
      [] cat = "D" -> ch \notin Digits
      [] cat = "s" -> ch \in Whitespace
      [] cat = "S" -> ch \notin Whitespace
      [] cat = "w" -> ch \in WordChars
      [] cat = "W" -> ch \notin WordChars

SetHas(item, ch) ==
    CASE item.k = "lit" -> ch = item.c
      [] item.k = "range" -> Code(ch) >= item.lo /\ Code(ch) <= item.hi
      [] item.k = "cat" -> CatHas(item.c, ch)

\* Whether the position before index i of s is where the anchor holds.
\* In the empty string neither \b nor \B holds.
AtHolds(where, s, i) ==
    LET word(j) == j >= 1 /\ j <= Len(s) /\ s[j] \in WordChars
    IN  CASE where = "bol" -> i = 1
          [] where = "A" -> i = 1
          [] where = "eol" -> i = Len(s) + 1 \/ (i = Len(s) /\ s[i] = NL)
          [] where = "Z" -> i = Len(s) + 1
          [] where = "b" -> word(i - 1) # word(i)
          [] where = "B" -> s # <<>> /\ word(i - 1) = word(i)

\* The state of a match is [i, caps]: the index of the next character to
\* read and, for each group, the <<start, end>> indexes of what it holds
\* (<<0, 0>> when it holds nothing).
RECURSIVE Match(_, _, _)
RECURSIVE MatchAll(_, _, _)
RECURSIVE MatchSeq(_, _, _, _)
RECURSIVE MatchRep(_, _, _, _)
RECURSIVE MatchMore(_, _, _, _, _)

\* The states in which a match of node n that starts in state st can end,
\* in the order backtracking reaches them.
Match(n, s, st) ==
    LET i == st.i
        one(ok) == IF ok THEN <<[st EXCEPT !.i = i + 1]>> ELSE <<>>
        char(ch) ==
            CASE n.t = "lit" -> one(ch # "" /\ ch = n.c)
              [] n.t = "any" -> one(ch # "" /\ ch # NL)
              [] n.t = "in" ->
                   one(ch # "" /\ ((\E k \in 1..Len(n.items) :
                                       SetHas(n.items[k], ch)) # n.neg))
        first(sts) == IF sts = <<>> THEN <<>> ELSE <<sts[1]>>
        group(inner) ==
            CASE n.t = "group" ->
                   [k \in 1..Len(inner) |->
                       [inner[k] EXCEPT !.caps[n.n] = <<i, inner[k].i>>]]
              [] n.t = "look" ->
                   IF n.neg THEN (IF inner = <<>> THEN <<st>> ELSE <<>>)
                   ELSE IF inner = <<>> THEN <<>>
                   ELSE <<[st EXCEPT !.caps = inner[1].caps]>>
              [] n.t = "atomic" -> first(inner)
        ref(held) ==
            IF st.caps[n.n] = <<0, 0>> THEN <<>>
            ELSE IF i + Len(held) - 1 <= Len(s)
                    /\ SubSeq(s, i, i + Len(held) - 1) = held
            THEN <<[st EXCEPT !.i = i + Len(held)]>>
            ELSE <<>>
    IN  CASE n.t \in {"lit", "any", "in"} -> char(At(s, i))
          [] n.t = "at" -> IF AtHolds(n.where, s, i) THEN <<st>> ELSE <<>>
          [] n.t = "seq" -> MatchSeq(n.items, 1, s, <<st>>)
          [] n.t = "alt" -> Match(n.left, s, st) \o Match(n.right, s, st)
          [] n.t = "rep" ->
               IF n.mode = "possessive"
               THEN first(MatchRep([n EXCEPT !.mode = "greedy"], s, st, 0))
               ELSE MatchRep(n, s, st, 0)
          [] n.t \in {"group", "look", "atomic"} ->
               group(Match(n.item, s, st))
          [] n.t = "ref" ->
               ref(SubSeq(s, st.caps[n.n][1], st.caps[n.n][2] - 1))

\* The matches of n from each of the states sts, in order (the states are
\* taken by halves, which keeps the evaluation shallow).
MatchAll(n, s, sts) ==
    LET h == Len(sts) \div 2
    IN  IF sts = <<>> THEN <<>>
        ELSE IF Len(sts) = 1 THEN Match(n, s, sts[1])
        ELSE MatchAll(n, s, SubSeq(sts, 1, h))
             \o MatchAll(n, s, SubSeq(sts, h + 1, Len(sts)))

\* The matches of items[k], items[k+1], ... in a row, from the states sts.
MatchSeq(items, k, s, sts) ==
    IF k > Len(items) \/ sts = <<>> THEN sts
    ELSE MatchSeq(items, k + 1, s, MatchAll(items[k], s, sts))

\* The matches of the repetition n from state st, count iterations done.
\* An iteration that read nothing ends the repetition once the minimum is
\* reached.
MatchRep(n, s, st, count) ==
    LET order(stop, more) ==
            IF n.mode = "lazy" THEN stop \o more ELSE more \o stop
    IN  order(IF count >= n.min THEN <<st>> ELSE <<>>,
              IF n.max = -1 \/ count < n.max
              THEN MatchMore(n, s, st.i, Match(n.item, s, st), count + 1)
              ELSE <<>>)

\* The repetition n carried on from each state of sts, the states in which
\* one more iteration, started at index from, ended.
MatchMore(n, s, from, sts, count) ==
    LET h == Len(sts) \div 2
    IN  IF sts = <<>> THEN <<>>
        ELSE IF Len(sts) = 1
        THEN IF sts[1].i = from /\ count >= n.min THEN sts
             ELSE MatchRep(n, s, sts[1], count)
        ELSE MatchMore(n, s, from, SubSeq(sts, 1, h), count)
             \o MatchMore(n, s, from, SubSeq(sts, h + 1, Len(sts)), count)

\* The states in which a match of the compiled pattern c that starts at
\* index i of s can end, in order.
MatchesAt(c, s, i) ==
    Match(c.node, s, [i |-> i, caps |-> [k \in 1..c.groups |-> <<0, 0>>]])

\* re.search(c, s) finds a match.
Search(c, s) == \E i \in 1..(Len(s) + 1) : MatchesAt(c, s, i) # <<>>

\* The replacement template r from index i on, for a pattern of g groups:
\* [err, parts], a part being [k, c, n]: a character ("lit") or a group
\* reference ("ref").  Without a backslash every character stands for
\* itself.
RECURSIVE Template(_, _, _, _)
Template(r, i, g, parts) ==
    LET c == At(r, i)
        d == At(r, i + 1)
        two == At(r, i + 2) \in Digits
        n == IF two THEN IntOf(r, i + 1, i + 3) ELSE IntOf(r, i + 1, i + 2)
        gt == Until(r, i + 3, ">")
        name == SubSeq(r, i + 3, gt - 1)
        number == name # <<>> /\ \A k \in 1..Len(name) : name[k] \in Digits
        part(x) == [k |-> "lit", c |-> x, n |-> 0]
        ref(x) == [k |-> "ref", c |-> "", n |-> x]
        lit(x, j) == Template(r, j, g, Append(parts, part(x)))
        bad(err) == [err |-> err, parts |-> <<>>]
    IN  IF i > Len(r) THEN [err |-> "", parts |-> parts]
        ELSE IF c # BACKSLASH THEN lit(c, i + 1)
        ELSE IF d = "" THEN bad("bad escape (end of pattern)")
        ELSE IF d = "g"
        THEN IF At(r, i + 2) # "<" THEN bad("missing <")
             ELSE IF gt = 0 THEN bad("missing >, unterminated name")
             ELSE IF name = <<>> THEN bad("missing group name")
             ELSE IF ~number THEN bad("unknown group name")
             ELSE IF IntOf(name, 1, Len(name) + 1) > g
             THEN bad("invalid group reference")
             ELSE Template(r, gt + 1, g,
                      Append(parts, ref(IntOf(name, 1, Len(name) + 1))))
        ELSE IF d = "0" THEN bad(UNMODELLED)
        ELSE IF d \in Digits
        THEN IF two /\ d \in (Digits \ {"8", "9"}) /\ At(r, i + 2) \in (Digits \ {"8", "9"})
                /\ At(r, i + 3) \in (Digits \ {"8", "9"})
             THEN bad(UNMODELLED)
             ELSE IF n > g THEN bad("invalid group reference")
             ELSE Template(r, IF two THEN i + 3 ELSE i + 2, g,
                           Append(parts, ref(n)))
        ELSE IF d \in {"a", "f", "n", "r", "t", "v", BACKSLASH}
        THEN lit(EscapeChar(d), i + 2)
        ELSE IF d = "b" THEN lit(Ctl.bs, i + 2)
        ELSE IF d \in AsciiLetters THEN bad("bad escape")
        ELSE Template(r, i + 2, g, parts \o <<part(c), part(d)>>)

\* The text a template stands for, for the match of s that started at
\* index i and ended in state st.  A group that holds nothing yields ''.
RECURSIVE Expand(_, _, _, _)
Expand(parts, s, i, st) ==
    IF parts = <<>> THEN <<>>
    ELSE LET x == parts[1]
             text == IF x.k = "lit" THEN <<x.c>>
                     ELSE IF x.n = 0 THEN SubSeq(s, i, st.i - 1)
                     ELSE SubSeq(s, st.caps[x.n][1], st.caps[x.n][2] - 1)
         IN  text \o Expand(Tail(parts), s, i, st)

\* The first state of sts that is past index i when advance is asked for,
\* else the first one; <<>> when there is none.
FirstMatchState(sts, i, advance) ==
    LET ok == {k \in 1..Len(sts) : ~advance \/ sts[k].i # i}
    IN  IF ok = {} THEN <<>>
        ELSE <<sts[CHOOSE k \in ok : \A j \in ok : k <= j]>>

\* re.sub from index i of s on: every match, leftmost first, gives way to
\* the template.  After a match that read nothing the next one, at the
\* same index, has to read something (advance).
RECURSIVE SubFrom(_, _, _, _, _)
SubFrom(c, parts, s, i, advance) ==
    LET from(m) ==
            IF i > Len(s) + 1 THEN <<>>
            ELSE IF m = <<>>
            THEN IF i > Len(s) THEN <<>>
                 ELSE <<s[i]>> \o SubFrom(c, parts, s, i + 1, FALSE)
            ELSE Expand(parts, s, i, m[1])
                 \o SubFrom(c, parts, s, m[1].i, m[1].i = i)
    IN  from(FirstMatchState(MatchesAt(c, s, i), i, advance))

\* re.sub(c, repl, s) for a compiled pattern c and a parsed template.
Sub(c, parts, s) == SubFrom(c, parts, s, 1, FALSE)

(***************************************************************************)
(* Files.  A file is [exists, lines]; a line carries no newline.           *)
(***************************************************************************)
NoFile == [exists |-> FALSE, lines |-> <<>>]
FileOf(lines) == [exists |-> TRUE, lines |-> lines]

\* file.touch: an empty file when there is none.
FileTouch(f) == IF f.exists THEN f ELSE FileOf(<<>>)

\* Some line of the file matches the compiled pattern c.
SomeLineMatches(f, c) ==
    f.exists /\ \E i \in 1..Len(f.lines) : Search(c, f.lines[i])

\* file.search(path, pattern): [raised, found].  It raises when the pattern
\* does not compile; found tells that some line of the file matches.
FileSearch(f, pat) ==
    LET search(c) ==
            IF c.err # "" THEN [raised |-> TRUE, found |-> FALSE]
            ELSE [raised |-> FALSE, found |-> SomeLineMatches(f, c)]
    IN  search(Compile(pat))

\* file.replace(path, pattern, repl, append_if_not_found=True):
\* [raised, file].  It raises when the pattern does not compile, or when
\* the template does not and a line is there to apply it to.  repl is put
\* in place of every match; when no line matches, repl is appended, as it
\* is, as a line of its own.
FileReplace(f, pat, repl) ==
    LET edit(c, t) ==
            IF c.err # "" \/ (t.err # "" /\ f.lines # <<>>)
            THEN [raised |-> TRUE, file |-> f]
            ELSE IF SomeLineMatches(f, c)
            THEN [raised |-> FALSE,
                  file |-> FileOf([i \in 1..Len(f.lines) |->
                                      Sub(c, t.parts, f.lines[i])])]
            ELSE [raised |-> FALSE, file |-> FileOf(Append(f.lines, repl))]
        with(c) == edit(c, Template(repl, 1, c.groups, <<>>))
    IN  with(Compile(pat))

(***************************************************************************)
(* The programs the module runs.                                           *)
(***************************************************************************)
LANGUAGE == <<"L","A","N","G","U","A","G","E">>
LC_TIME == <<"L","C","_","T","I","M","E">>
VC_KEYMAP == <<"V","C"," ","K","e","y","m","a","p">>
NOT_SET == <<"n","/","a">>

\* The order in which localectl lists the parameters.
KeyOrder == <<LANG, LANGUAGE, LC_TIME>>

\* `localectl` (status): the System Locale block, its first parameter on
\* the header line and the others on indented lines of their own, then
\* the next block.  params is the dict systemd holds.
StatusLines(params) ==
    LET item(i) == params[i][1] \o <<"=">> \o params[i][2]
    IN  (IF params = <<>>
         THEN << SYSTEM_LOCALE \o <<":", SPACE>> \o NOT_SET >>
         ELSE [i \in 1..Len(params) |->
                  IF i = 1
                  THEN <<SPACE>> \o SYSTEM_LOCALE \o <<":", SPACE>> \o item(i)
                  ELSE <<SPACE, SPACE>> \o item(i)])
        \o << VC_KEYMAP \o <<":", SPACE>> \o NOT_SET >>

LocalectlStatus(params) == Join(StatusLines(params), <<NL>>)

\* The argument list a command line is split into when no shell runs it
\* (shlex): blanks separate arguments, double quotes group and are dropped.
\* st is [args, cur, open, inq]: the arguments so far, the one being read,
\* whether one is being read, and whether a quote is open.
RECURSIVE ShlexFrom(_, _)
ShlexFrom(st, s) ==
    IF s = <<>>
    THEN IF st.open THEN Append(st.args, st.cur) ELSE st.args
    ELSE LET ch == s[1]
         IN  IF ch = QUOTE
             THEN ShlexFrom([st EXCEPT !.inq = ~st.inq, !.open = TRUE], Tail(s))
             ELSE IF ch = SPACE /\ ~st.inq
             THEN ShlexFrom([args |-> IF st.open THEN Append(st.args, st.cur)
                                      ELSE st.args,
                             cur |-> <<>>, open |-> FALSE, inq |-> FALSE],
                            Tail(s))
             ELSE ShlexFrom([st EXCEPT !.cur = Append(st.cur, ch),
                                       !.open = TRUE], Tail(s))

ShlexSplit(s) ==
    ShlexFrom([args |-> <<>>, cur |-> <<>>, open |-> FALSE, inq |-> FALSE], s)

\* The assignments `localectl set-locale` receives: each argument KEY=value
\* as <<KEY, value>>.
SetLocaleArgs(argtext) ==
    LET args == ShlexSplit(argtext)
        kv(a) == LET i == IndexOf(a, "=")
                 IN  IF i = 0 THEN <<a, <<>>>>
                     ELSE <<SubSeq(a, 1, i - 1), From(a, i + 1)>>
    IN  {kv(args[i]) : i \in 1..Len(args)}

\* `localectl set-locale`: the System Locale becomes exactly the given
\* assignments; a parameter that is not given, or given empty, is unset.
LocalectlSetLocale(argtext) ==
    LET given == SetLocaleArgs(argtext)
        val(k) == (CHOOSE kv \in given : kv[1] = k)[2]
        has(k) == \E kv \in given : kv[1] = k /\ kv[2] # <<>>
        keep  == SelectSeq(KeyOrder, has)
    IN  [i \in 1..Len(keep) |-> <<keep[i], val(keep[i])>>]

\* `grep "^LANG=" <file>`: the lines that start with LANG=, or the error
\* message when there is no file (cmd.run returns stderr with stdout).
GREP_ERROR == <<"g","r","e","p",":"," ","N","o"," ","s","u","c","h"," ","f","i","l","e">>

GrepLang(f) ==
    IF ~f.exists THEN GREP_ERROR
    ELSE Join(SelectSeq(f.lines, LAMBDA l : StartsWith(l, LANG_EQ)), <<NL>>)

\* `update-locale` with no argument: /etc/default/locale keeps the settings
\* it holds; it is created when there is none.
UpdateLocale(f) == FileTouch(f)

(***************************************************************************)
(* get_locale                                                              *)
(***************************************************************************)
Ret(raised, text) == [raised |-> raised, text |-> text]

\* _localectl_get
localectl_get(out) ==
    LET p == parse_localectl(out)
    IN  IF p.raised THEN Ret(TRUE, <<>>)
        ELSE Ret(FALSE, DictGet(p.ret, LANG, <<>>))

\* cmd.run(cmd).split('=')[1].replace('"', ''), '' on IndexError.
ExtractLang(out) ==
    LET parts == Split(out, "=")
    IN  IF Len(parts) < 2 THEN <<>> ELSE Remove(parts[2], QUOTE)

\* get_locale, given the OS family and the output of the command the
\* family's branch runs: [raised, text].
get_locale(family, out) ==
    IF family = "Arch" THEN localectl_get(out)
    ELSE IF family = "Gentoo" THEN Ret(FALSE, Strip(out))
    ELSE Ret(FALSE, ExtractLang(out))

(***************************************************************************)
(* set_locale                                                              *)
(***************************************************************************)
\* '{0}="{1}"'.format(k, v)
Assign(k, v) == k \o <<"=", QUOTE>> \o v \o <<QUOTE>>

\* A replacement line that lost its LANG= key.
LangLineNoKey(locale) == <<QUOTE>> \o locale \o <<QUOTE>>

\* 'LANG="{0}"'.format(locale)
LangLine(locale) == Assign(LANG, locale)

\* '^LANG=.*'
LangPattern == <<"^">> \o LANG_EQ \o <<".", "*">>

\* The arguments _localectl_set builds from the parsed parameters.
LocalectlSetArgs(params, locale) ==
    LET d == DictSet(params, LANG, locale)
    IN  Join([i \in 1..Len(d) |-> Assign(d[i][1], d[i][2])], <<SPACE>>)

(***************************************************************************)
(* The state: the host (grains, files, systemd, eselect, search path) and  *)
(* the record of the last call.                                            *)
(***************************************************************************)
VARIABLES
    os_family,   \* __grains__['os_family']
    os,          \* __grains__['os']
    fs,          \* the files the module reads and edits, by name
    listdir,     \* os.listdir of the locale directory: [ok, names]
    sysLocale,   \* the System Locale parameters systemd holds (a dict)
    gentoo,      \* the locale eselect holds
    tools,       \* the executables found on the search path
    input,       \* the output of the command a query runs
    call,        \* the last call: op, arg, raised, val, text, log
    before,      \* the files, the parameters and the call before the last call
    gen          \* the position and the locals of a gen_locale call

vars == <<os_family, os, fs, listdir, sysLocale, gentoo, tools, input, call,
          before, gen>>

host == <<os_family, os, listdir, tools, input>>

\* Bounds of the model.
MaxLocLen == 1
MaxConfLines == 2
MaxOutLines == 2
MaxAvail == 2
MaxSupported == 2
MaxRetcode == 1

\* All strings over chars of length at most n.
Strs(chars, n) == UNION {[1..k -> chars] : k \in 0..n}

\* All sequences over S of length at most n.
SeqsUpTo(S, n) == UNION {[1..k -> S] : k \in 0..n}

\* The locales set_locale is asked for: not empty.
LocChars == {"a", "b"}
Locales == Strs(LocChars, MaxLocLen) \ {<<>>}

Families == {"Arch", "RedHat", "Debian", "Gentoo", "Solaris"}

\* The files, when none exists.
NoFiles == [i18n |-> NoFile, default_locale |-> NoFile, locale_gen |-> NoFile,
            supported |-> NoFile, supported_d |-> <<>>]

NoCall == [op |-> "none", arg |-> <<>>, raised |-> FALSE, val |-> FALSE,
           text |-> <<>>, log |-> <<>>]

Summary(c) == [op |-> c.op, arg |-> c.arg, raised |-> c.raised, val |-> c.val]

NoBefore == [fs |-> NoFiles, sys |-> <<>>, call |-> Summary(NoCall)]

\* gen_locale is not running: its locals hold nothing.
GenIdle == [pc |-> "idle", locale |-> <<>>, verbose |-> FALSE,
            info |-> [language |-> <<>>, territory |-> <<>>, codeset |-> <<>>,
                      modifier |-> <<>>, charmap |-> <<>>],
            valid |-> FALSE, cmd |-> <<>>, error |-> "", kind |-> "",
            retcode |-> 0]

\* One entry of the log of a call: the collaborator, the program or path,
\* and the text formatted into the command.
Entry(fn, prog, args) == [fn |-> fn, prog |-> prog, args |-> args]

(***************************************************************************)
(* The hosts set_locale and get_locale are run on.                         *)
(***************************************************************************)
\* The values a parameter can be set to: locale names, and for LANGUAGE
\* also a colon-separated list of them.
SysValsOf(k) ==
    IF k = LANGUAGE THEN {<<"a">>, <<"a", ":", "b">>} ELSE {<<"a">>, <<"b">>}

\* Every System Locale systemd can hold: each parameter unset or set.
SysLocales ==
    {LocalectlSetLocale(Join([i \in 1..Len(KeyOrder) |->
                                 Assign(KeyOrder[i], v[i])], <<SPACE>>)) :
        v \in {w \in [1..Len(KeyOrder) -> {<<>>, <<"a">>, <<"b">>, <<"a", ":", "b">>}] :
                  \A i \in 1..Len(KeyOrder) :
                      w[i] \in SysValsOf(KeyOrder[i]) \cup {<<>>}}}

\* The lines a configuration file is made of.
ConfLines == {LANG_EQ \o <<"a">>, LangLine(<<"b">>), <<"#", "c">>}
ConfFiles == {NoFile} \cup {FileOf(l) : l \in SeqsUpTo(ConfLines, MaxConfLines)}

OsOf(family) == IF family = "Debian" THEN "Debian" ELSE family

Init ==
    /\ os_family \in Families
    /\ os = OsOf(os_family)
    /\ fs \in IF os_family = "RedHat"
               THEN {[NoFiles EXCEPT !.i18n = f] : f \in ConfFiles}
               ELSE IF os_family = "Debian"
               THEN {[NoFiles EXCEPT !.default_locale = f] : f \in ConfFiles}
               ELSE {NoFiles}
    /\ listdir = [ok |-> TRUE, names |-> {}]
    /\ sysLocale \in IF os_family = "Arch" THEN SysLocales ELSE {<<>>}
    /\ gentoo \in IF os_family = "Gentoo" THEN Locales ELSE {<<>>}
    /\ tools \in IF os_family = "Debian" THEN {{}, {"update-locale"}} ELSE {{}}
    /\ input = <<>>
    /\ call = NoCall
    /\ before = NoBefore
    /\ gen = GenIdle

(***************************************************************************)
(* get_locale as an operation on the host.                                 *)
(***************************************************************************)
\* The command get_locale runs for the family, and what it prints.
QueryEntry(family) ==
    IF family = "Arch" THEN Entry("cmd.run", "localectl", <<>>)
    ELSE IF family = "RedHat"
    THEN Entry("cmd.run", "grep \"^LANG=\" /etc/sysconfig/i18n", <<>>)
    ELSE IF family = "Debian"
    THEN Entry("cmd.run", "grep \"^LANG=\" /etc/default/locale", <<>>)
    ELSE IF family = "Gentoo"
    THEN Entry("cmd.run", "eselect --brief locale show", <<>>)
    ELSE Entry("cmd.run", "", <<>>)

QueryOutput ==
    IF os_family = "Arch" THEN LocalectlStatus(sysLocale)
    ELSE IF os_family = "RedHat" THEN GrepLang(fs.i18n)
    ELSE IF os_family = "Debian" THEN GrepLang(fs.default_locale)
    ELSE IF os_family = "Gentoo" THEN gentoo
    ELSE <<>>

Snapshot == [fs |-> fs, sys |-> sysLocale, call |-> Summary(call)]

GetLocale ==
    \E r \in {get_locale(os_family, QueryOutput)} :
        /\ gen.pc = "idle"
        /\ call' = [op |-> "get_locale", arg |-> <<>>, raised |-> r.raised,
                    val |-> FALSE, text |-> r.text,
                    log |-> <<QueryEntry(os_family)>>]
        /\ before' = Snapshot
        /\ UNCHANGED <<host, fs, sysLocale, gentoo, gen>>

(***************************************************************************)
(* set_locale.  Each branch gives the outcome of the call: whether it      *)
(* raised, the value returned, the files and the parameters after it, and  *)
(* the collaborators called, in order.                                     *)
(***************************************************************************)
Outcome(raised, val, f, sys, gl, log) ==
    [raised |-> raised, val |-> val, fs |-> f, sys |-> sys, gentoo |-> gl,
     log |-> log]

\* _localectl_set: the parameters are parsed from `localectl`, LANG is
\* overwritten, and all are given to `localectl set-locale`, which ends
\* with retcode rc.
localectl_set(sys, locale, rc) ==
    LET p == parse_localectl(LocalectlStatus(sys))
        args == LocalectlSetArgs(p.ret, locale)
    IN  IF p.raised
        THEN [raised |-> TRUE, val |-> FALSE, sys |-> sys,
              log |-> <<Entry("cmd.run", "localectl", <<>>)>>]
        ELSE [raised |-> FALSE, val |-> (rc = 0),
              sys |-> IF rc = 0 THEN LocalectlSetLocale(args) ELSE sys,
              log |-> <<Entry("cmd.run", "localectl", <<>>),
                        Entry("cmd.retcode", "localectl set-locale", args)>>]

\* The RedHat branch: the file is created when missing, then edited.
set_locale_redhat(f, locale) ==
    [edit |-> FileReplace(FileTouch(f), LangPattern, LangLine(locale)),
     log |-> (IF f.exists THEN <<>>
              ELSE <<Entry("file.touch", "/etc/sysconfig/i18n", <<>>)>>)
             \o <<Entry("file.replace", "/etc/sysconfig/i18n",
                        LangLine(locale))>>]

\* A Debian branch that goes on when update-locale is not found.
set_locale_debian_unchecked(f, path, locale) ==
    [found |-> TRUE,
     edit |-> FileReplace(UpdateLocale(f), LangPattern, LangLine(locale)),
     log |-> <<Entry("cmd.run", "update-locale", <<>>),
               Entry("file.replace", "/etc/default/locale",
                     LangLine(locale))>>]

\* The Debian branch: update-locale must be found; it is run, then the
\* file is edited.
set_locale_debian(f, path, locale) ==
    IF "update-locale" \notin path
    THEN [found |-> FALSE, edit |-> [raised |-> FALSE, file |-> f],
          log |-> <<>>]
    ELSE [found |-> TRUE,
          edit |-> FileReplace(UpdateLocale(f), LangPattern, LangLine(locale)),
          log |-> <<Entry("cmd.run", "update-locale", <<>>),
                    Entry("file.replace", "/etc/default/locale",
                          LangLine(locale))>>]

\* set_locale on a host, rc being the retcode of the command the Arch and
\* Gentoo branches run.
set_locale(family, f, sys, gl, path, locale, rc) ==
    IF family = "Arch"
    THEN LET arch(r) == Outcome(r.raised, r.val, f, r.sys, gl, r.log)
         IN  arch(localectl_set(sys, locale, rc))
    ELSE IF family = "RedHat"
    THEN LET redhat(r) ==
                 Outcome(r.edit.raised, ~r.edit.raised,
                         [f EXCEPT !.i18n = r.edit.file], sys, gl, r.log)
         IN  redhat(set_locale_redhat(f.i18n, locale))
    ELSE IF family = "Debian"
    THEN LET debian(r) ==
                 Outcome(~r.found \/ r.edit.raised, r.found /\ ~r.edit.raised,
                         [f EXCEPT !.default_locale = r.edit.file], sys, gl,
                         r.log)
         IN  debian(set_locale_debian(f.default_locale, path, locale))
    ELSE IF family = "Gentoo"
    THEN Outcome(FALSE, rc = 0, f, sys, IF rc = 0 THEN locale ELSE gl,
                 <<Entry("cmd.retcode", "eselect --brief locale set", locale)>>)
    ELSE Outcome(FALSE, TRUE, f, sys, gl, <<>>)

\* The retcodes the command of the family's branch can end with.
Retcodes(family) == IF family \in {"Arch", "Gentoo"} THEN {0, 1} ELSE {0}

SetLocale ==
    \E locale \in Locales, rc \in Retcodes(os_family) :
        \E r \in {set_locale(os_family, fs, sysLocale, gentoo, tools, locale, rc)} :
            /\ gen.pc = "idle"
            /\ call' = [op |-> "set_locale", arg |-> locale,
                        raised |-> r.raised, val |-> r.val, text |-> <<>>,
                        log |-> r.log]
            /\ before' = Snapshot
            /\ fs' = r.fs
            /\ sysLocale' = r.sys
            /\ gentoo' = r.gentoo
            /\ UNCHANGED <<host, gen>>

Next == SetLocale \/ GetLocale

Spec == Init /\ [][Next]_vars

(***************************************************************************)
(* get_locale on any output of the command: the query specification.       *)
(***************************************************************************)
OutLines ==
    { <<>>,
      <<"x">>,
      NOT_SET,
      LANG_EQ \o <<"a">>,
      LangLine(<<"a">>),
      SYSTEM_LOCALE \o <<":", SPACE>> \o NOT_SET,
      <<SPACE>> \o SYSTEM_LOCALE \o <<":", SPACE>> \o LANG_EQ \o <<"a">>,
      <<SPACE>> \o LC_TIME \o <<"=", "a", ":", "b">>,
      VC_KEYMAP \o <<":", SPACE>> \o NOT_SET }

Outputs == {Join(l, <<NL>>) : l \in SeqsUpTo(OutLines, MaxOutLines)}

InitQuery ==
    /\ os_family \in Families
    /\ os = OsOf(os_family)
    /\ fs = NoFiles
    /\ listdir = [ok |-> TRUE, names |-> {}]
    /\ sysLocale = <<>>
    /\ gentoo = <<>>
    /\ tools = {}
    /\ input \in Outputs
    /\ call = NoCall
    /\ before = NoBefore
    /\ gen = GenIdle

\* get_locale when the command of the family's branch prints `input`.
Query ==
    \E r \in {get_locale(os_family, input)} :
        /\ call.op = "none"
        /\ call' = [op |-> "get_locale", arg |-> <<>>, raised |-> r.raised,
                    val |-> FALSE, text |-> r.text,
                    log |-> <<QueryEntry(os_family)>>]
        /\ before' = Snapshot
        /\ UNCHANGED <<host, fs, sysLocale, gentoo, gen>>

NextQuery == Query

SpecQuery == InitQuery /\ [][NextQuery]_vars

(***************************************************************************)
(* salt.utils.locales: a locale string is                                  *)
(* language[_territory][.codeset][@modifier][ charmap].                    *)
(***************************************************************************)
\* st.split(char, 1), padded with '' to two elements.
Split2(st, char) ==
    LET p == SplitOnce(st, char)
    IN  IF Len(p) = 1 THEN <<p[1], <<>>>> ELSE p

split_locale(loc) ==
    LET a == Split2(loc, SPACE)
        b == Split2(a[1], "@")
        c == Split2(b[1], ".")
        d == Split2(c[1], "_")
    IN  [language |-> d[1], territory |-> d[2], codeset |-> c[2],
         modifier |-> b[2], charmap |-> a[2]]

join_locale(comps) ==
    comps.language
    \o (IF comps.territory # <<>> THEN <<"_">> \o comps.territory ELSE <<>>)
    \o (IF comps.codeset # <<>> THEN <<".">> \o comps.codeset ELSE <<>>)
    \o (IF comps.modifier # <<>> THEN <<"@">> \o comps.modifier ELSE <<>>)
    \o (IF comps.charmap # <<>> THEN <<SPACE>> \o comps.charmap ELSE <<>>)

\* The form `locale -a` prints: territory in upper case, codeset in lower
\* case without '-', no charmap.
normalize_locale(loc) ==
    LET comps == split_locale(loc)
    IN  join_locale([comps EXCEPT !.territory = Upper(comps.territory),
                                  !.codeset = Remove(Lower(comps.codeset), "-"),
                                  !.charmap = <<>>])

(***************************************************************************)
(* list_avail and avail.                                                   *)
(***************************************************************************)
\* list_avail: the output of `locale -a`, split on newlines.
list_avail(out) == Split(out, NL)

\* An entry compared without being trimmed first.
EntryMatchesUntrimmed(x, normalized) == normalize_locale(x) = normalized

\* Whether entry x of the list is the requested locale.
EntryMatches(x, normalized) == normalize_locale(Strip(x)) = normalized

\* next((True for x in avail_locales if ...), False): the list is read from
\* its head and the first match ends the search.
RECURSIVE FirstMatch(_, _)
FirstMatch(entries, normalized) ==
    IF entries = <<>> THEN FALSE
    ELSE IF EntryMatches(entries[1], normalized) THEN TRUE
    ELSE FirstMatch(Tail(entries), normalized)

\* avail(locale), given the list list_avail returns.  normalize_locale
\* raises no IndexError, so the branch that logs and returns False on it is
\* never taken.
avail(locale, entries) == FirstMatch(entries, normalize_locale(locale))

\* The locale names of the model, by their parts.
EN == <<"e", "n">>
DE == <<"d", "e">>
UTF8 == <<"U", "T", "F", "-", "8">>
utf8 == <<"u", "t", "f", "8">>

Names(languages, territories, codesets, charmaps) ==
    {join_locale([language |-> l, territory |-> t, codeset |-> c,
                  modifier |-> <<>>, charmap |-> m]) :
        l \in languages, t \in territories, c \in codesets, m \in charmaps}

\* What `locale -a` may list: compiled names, some padded with blanks, and
\* the empty entry a trailing newline leaves.
AvailEntries ==
    LET names == Names({EN}, {<<>>, <<"U", "S">>}, {<<>>, UTF8, utf8}, {<<>>})
                 \cup {<<"C">>, <<>>}
    IN  names \cup {<<SPACE>> \o n \o <<SPACE>> : n \in {EN \o <<"_", "U", "S">> \o <<".">> \o utf8}}

AvailOutputs == {Join(l, <<NL>>) : l \in SeqsUpTo(AvailEntries, MaxAvail)}

\* The locales avail is asked for.
AvailRequests ==
    Names({EN, DE}, {<<>>, <<"U", "S">>, <<"u", "s">>}, {<<>>, UTF8, utf8},
          {<<>>, UTF8})

InitAvail ==
    /\ os_family = "Debian"
    /\ os = "Debian"
    /\ fs = NoFiles
    /\ listdir = [ok |-> TRUE, names |-> {}]
    /\ sysLocale = <<>>
    /\ gentoo = <<>>
    /\ tools = {}
    /\ input \in AvailOutputs
    /\ call = NoCall
    /\ before = NoBefore
    /\ gen = GenIdle

\* avail(locale) when `locale -a` prints `input`.
Avail ==
    \E locale \in AvailRequests :
        /\ call.op = "none"
        /\ call' = [op |-> "avail", arg |-> locale, raised |-> FALSE,
                    val |-> avail(locale, list_avail(input)), text |-> <<>>,
                    log |-> <<Entry("cmd.run", "locale -a", <<>>)>>]
        /\ before' = Snapshot
        /\ UNCHANGED <<host, fs, sysLocale, gentoo, gen>>

NextAvail == Avail

SpecAvail == InitAvail /\ [][NextAvail]_vars

(***************************************************************************)
(* The hosts gen_locale is run on.                                         *)
(***************************************************************************)
UTF_DOT_8 == <<"U", "T", "F", ".", "8">>
US == <<"U", "S">>

\* The locales gen_locale is asked for: names made of their parts and, for
\* the metacharacters of re besides '.', one with a group that is not
\* closed and one with an alternative.
GenRequests ==
    Names({EN, DE}, {US}, {<<>>, UTF8, UTF_DOT_8}, {<<>>, UTF8})
    \cup {EN \o <<"_">> \o US \o <<".">> \o UTF8 \o <<"(">>,
          EN \o <<"_">> \o US \o <<".">> \o UTF8 \o <<"|", "C">>}

\* The lines of /usr/share/i18n/SUPPORTED: "<locale> <charmap>".
SupportedLines == Names({EN, DE}, {US}, {UTF8}, {UTF8}) \cup {EN \o <<"_">> \o US}

SupportedFiles == {FileOf(l) : l \in SeqsUpTo(SupportedLines, MaxSupported)}

\* The entries of the locale directory.
DirNames == {EN \o <<"_">> \o US, DE \o <<"_">> \o US}
Listings == {[ok |-> FALSE, names |-> {}]}
            \cup {[ok |-> TRUE, names |-> n] : n \in SUBSET DirNames}

\* /etc/locale.gen: missing, or holding a locale commented out.
LocaleGenFiles ==
    {NoFile,
     FileOf(<< <<"#", SPACE>> \o EN \o <<"_">> \o US \o <<".">> \o UTF8
               \o <<SPACE>> \o UTF8 >>)}

\* The grains gen_locale reads.
on_debian == os = "Debian"
on_ubuntu == os = "Ubuntu"
on_gentoo == os_family = "Gentoo"
on_suse == os_family = "Suse"

\* The (os, os_family) grains of the hosts.
GenHosts == {<<"Debian", "Debian">>, <<"Ubuntu", "Debian">>,
             <<"Gentoo", "Gentoo">>, <<"SUSE", "Suse">>,
             <<"CentOS", "RedHat">>}

InitGen ==
    /\ \E h \in GenHosts : os = h[1] /\ os_family = h[2]
    /\ \E sup \in IF on_debian \/ on_gentoo THEN SupportedFiles ELSE {NoFile},
          lg \in LocaleGenFiles,
          sd \in IF on_ubuntu
                 THEN {<<>>, << <<EN, FileOf(<< EN \o <<"_">> \o US >>)>> >>}
                 ELSE {<<>>} :
          fs = [NoFiles EXCEPT !.supported = sup, !.locale_gen = lg,
                               !.supported_d = sd]
    /\ listdir \in IF on_debian \/ on_gentoo
                   THEN {[ok |-> TRUE, names |-> {}]} ELSE Listings
    /\ sysLocale = <<>>
    /\ gentoo = <<>>
    /\ tools \in SUBSET {"locale-gen", "localedef"}
    /\ input = <<>>
    /\ call = NoCall
    /\ before = NoBefore
    /\ gen = GenIdle

(***************************************************************************)
(* gen_locale, one action for each of its steps: the call starts, the      *)
(* locale is validated, registered, the compile command is chosen, and run.*)
(* fs.supported is /usr/share/i18n/SUPPORTED, fs.locale_gen is             *)
(* /etc/locale.gen and fs.supported_d is the directory                     *)
(* /var/lib/locales/supported.d, a dict from language to file.             *)
(***************************************************************************)
\* '^{0}$'.format(locale)
LinePattern(locale) == <<"^">> \o locale \o <<"$">>

\* r'^\s*#\s*{0}\s*$'.format(locale)
CommentedPattern(locale) ==
    <<"^", BACKSLASH, "s", "*", "#", BACKSLASH, "s", "*">> \o locale
    \o <<BACKSLASH, "s", "*", "$">>

\* The pattern of the supported.d edit: the locale itself.
BarePattern(locale) == locale

\* The error of a pattern, or of a replacement, that re does not accept.
PATTERN_ERROR == "re.error"

\* "{0}_{1}".format(locale_info['language'], locale_info['territory'])
LangTerritory(info) == info.language \o <<"_">> \o info.territory

\* The file-based search: the locale as given, then, when that is not found
\* and no charmap was given, the locale with its codeset as charmap.
\* A search that raises ends the validation.
\* [raised, valid, locale, info, log].
ValidateByFile(supported, locale, info) ==
    LET first == FileSearch(supported, LinePattern(locale))
        info2 == [info EXCEPT !.charmap = info.codeset]
        locale2 == join_locale(info2)
        second == FileSearch(supported, LinePattern(locale2))
        search(l) == Entry("file.search", "/usr/share/i18n/SUPPORTED", l)
    IN  IF first.raised
        THEN [raised |-> TRUE, valid |-> FALSE, locale |-> locale,
              info |-> info, log |-> <<search(locale)>>]
        ELSE IF ~first.found /\ info.charmap = <<>>
        THEN [raised |-> second.raised, valid |-> second.found,
              locale |-> locale2, info |-> info2,
              log |-> <<search(locale), search(locale2)>>]
        ELSE [raised |-> FALSE, valid |-> first.found, locale |-> locale,
              info |-> info, log |-> <<search(locale)>>]

\* A validation whose result is not looked at.
AfterValidateAlways(valid) == "register"

\* The step taken after validation.
AfterValidate(valid) == IF valid THEN "register" ELSE "done"

\* A command is a list of words, fixed ones and formatted ones.
Word(w) == [word |-> w, text |-> <<>>]
Text(t) == [word |-> "", text |-> t]

\* A choice that takes localedef for granted when locale-gen is not found.
CompileCommandNoCheck(path, gentooHost, ubuntuHost, locale, info, verbose) ==
    IF "locale-gen" \in path
    THEN <<Word("locale-gen")>>
         \o (IF gentooHost THEN <<Word("--generate")>> ELSE <<>>)
         \o (IF ~ubuntuHost THEN <<Text(locale)>> ELSE <<>>)
    ELSE <<Word("localedef"), Word("--force"), Word("-i"),
           Text(LangTerritory(info)), Word("-f"), Text(info.codeset),
           Text(locale),
           Word(IF verbose THEN "--verbose" ELSE "--quiet")>>

\* The compile command: locale-gen when found, else localedef when found,
\* else none (the empty list).
CompileCommand(path, gentooHost, ubuntuHost, locale, info, verbose) ==
    IF "locale-gen" \in path
    THEN <<Word("locale-gen")>>
         \o (IF gentooHost THEN <<Word("--generate")>> ELSE <<>>)
         \o (IF ~ubuntuHost THEN <<Text(locale)>> ELSE <<>>)
    ELSE IF "localedef" \in path
    THEN <<Word("localedef"), Word("--force"), Word("-i"),
           Text(LangTerritory(info)), Word("-f"), Text(info.codeset),
           Text(locale),
           Word(IF verbose THEN "--verbose" ELSE "--quiet")>>
    ELSE <<>>

\* A return that reports success whatever the retcode.
GenReturnTrue(verbose, rc) ==
    IF verbose THEN [kind |-> "res", val |-> FALSE, retcode |-> rc]
    ELSE [kind |-> "bool", val |-> TRUE, retcode |-> rc]

\* What gen_locale returns after the command ended with retcode rc: the
\* result of the command when verbose, else whether rc is 0.
\* [kind, val, retcode].
GenReturn(verbose, rc) ==
    IF verbose THEN [kind |-> "res", val |-> FALSE, retcode |-> rc]
    ELSE [kind |-> "bool", val |-> (rc = 0), retcode |-> rc]

Logged(entries) == [call EXCEPT !.log = call.log \o entries]

GenStart ==
    \E locale \in GenRequests, verbose \in BOOLEAN :
        /\ gen.pc = "idle"
        /\ call.op = "none"
        /\ gen' = [GenIdle EXCEPT !.pc = "validate", !.locale = locale,
                                  !.verbose = verbose,
                                  !.info = split_locale(locale)]
        /\ call' = [NoCall EXCEPT !.op = "gen_locale", !.arg = locale]
        /\ before' = Snapshot
        /\ UNCHANGED <<host, fs, sysLocale, gentoo>>

GenValidateFile ==
    /\ gen.pc = "validate"
    /\ on_debian \/ on_gentoo
    /\ \E r \in {ValidateByFile(fs.supported, gen.locale, gen.info)} :
          IF r.raised
          THEN /\ gen' = [gen EXCEPT !.pc = "done", !.locale = r.locale,
                                     !.info = r.info, !.error = PATTERN_ERROR]
               /\ call' = [Logged(r.log) EXCEPT !.raised = TRUE]
          ELSE /\ gen' = [gen EXCEPT !.pc = AfterValidate(r.valid),
                                     !.valid = r.valid, !.locale = r.locale,
                                     !.info = r.info,
                                     !.kind = IF r.valid THEN "" ELSE "bool"]
               /\ call' = Logged(r.log)
    /\ UNCHANGED <<host, fs, sysLocale, gentoo, before>>

GenValidateDir ==
    /\ gen.pc = "validate"
    /\ ~(on_debian \/ on_gentoo)
    /\ \E dir \in {IF on_suse THEN "/usr/share/locale"
                   ELSE "/usr/share/i18n/locales"} :
          IF listdir.ok
          THEN \E valid \in {LangTerritory(gen.info) \in listdir.names} :
                  /\ gen' = [gen EXCEPT !.pc = AfterValidate(valid),
                                        !.valid = valid,
                                        !.kind = IF valid THEN "" ELSE "bool"]
                  /\ call' = Logged(<<Entry("os.listdir", dir, <<>>)>>)
          ELSE /\ gen' = [gen EXCEPT !.pc = "done",
                                     !.error = "locale is not available"]
               /\ call' = [Logged(<<Entry("os.listdir", dir, <<>>)>>)
                              EXCEPT !.raised = TRUE]
    /\ UNCHANGED <<host, fs, sysLocale, gentoo, before>>

\* The edit of /etc/locale.gen.
RegisterInLocaleGen(f, locale) ==
    FileReplace(f, CommentedPattern(locale), locale)

\* The edit of the file of the language under supported.d, touched first.
RegisterInSupportedD(f, locale) ==
    FileReplace(FileTouch(f), BarePattern(locale), locale)

\* The call after a registration whose edit is r: it goes on to the
\* compile command, or ends with the error of the edit.
AfterRegister(r, entries) ==
    /\ call' = [Logged(entries) EXCEPT !.raised = r.raised]
    /\ gen' = IF r.raised
              THEN [gen EXCEPT !.pc = "done", !.error = PATTERN_ERROR]
              ELSE [gen EXCEPT !.pc = "compile"]

GenRegister ==
    /\ gen.pc = "register"
    /\ IF fs.locale_gen.exists
       THEN \E r \in {RegisterInLocaleGen(fs.locale_gen, gen.locale)} :
               /\ fs' = [fs EXCEPT !.locale_gen = r.file]
               /\ AfterRegister(r, <<Entry("file.replace", "/etc/locale.gen",
                                           gen.locale)>>)
       ELSE IF on_ubuntu
       THEN \E r \in {RegisterInSupportedD(
                          DictGet(fs.supported_d, gen.info.language, NoFile),
                          gen.locale)} :
               /\ fs' = [fs EXCEPT !.supported_d =
                            DictSet(fs.supported_d, gen.info.language, r.file)]
               /\ AfterRegister(r, <<Entry("file.touch",
                                           "/var/lib/locales/supported.d/",
                                           gen.info.language),
                                     Entry("file.replace",
                                           "/var/lib/locales/supported.d/",
                                           gen.locale)>>)
       ELSE /\ gen' = [gen EXCEPT !.pc = "compile"]
            /\ UNCHANGED <<fs, call>>
    /\ UNCHANGED <<host, sysLocale, gentoo, before>>

GenCompile ==
    /\ gen.pc = "compile"
    /\ \E cmd \in {CompileCommand(tools, on_gentoo, on_ubuntu, gen.locale,
                                  gen.info, gen.verbose)} :
          IF cmd = <<>>
          THEN /\ gen' = [gen EXCEPT !.pc = "done",
                                     !.error = "command was not found"]
               /\ call' = [call EXCEPT !.raised = TRUE]
          ELSE /\ gen' = [gen EXCEPT !.pc = "run", !.cmd = cmd]
               /\ UNCHANGED call
    /\ UNCHANGED <<host, fs, sysLocale, gentoo, before>>

GenRun ==
    \E rc \in 0..MaxRetcode :
        \E r \in {GenReturn(gen.verbose, rc)} :
            /\ gen.pc = "run"
            /\ gen' = [gen EXCEPT !.pc = "done", !.kind = r.kind,
                                  !.retcode = r.retcode]
            /\ call' = [Logged(<<Entry("cmd.run_all", gen.cmd[1].word, <<>>)>>)
                           EXCEPT !.val = r.val]
            /\ UNCHANGED <<host, fs, sysLocale, gentoo, before>>

NextGen ==
    \/ GenStart
    \/ GenValidateFile
    \/ GenValidateDir
    \/ GenRegister
    \/ GenCompile
    \/ GenRun

SpecGen == InitGen /\ [][NextGen]_vars

(***************************************************************************)
(* Properties of set_locale and get_locale.                                *)
(***************************************************************************)
\* The last call was set_locale on the Arch path and reached
\* `localectl set-locale`.
ArchSetDone ==
    /\ os_family = "Arch"
    /\ call.op = "set_locale"
    /\ ~call.raised

\* The assignments the last call gave to `localectl set-locale`.
PassedToSetLocale == SetLocaleArgs(call.log[Len(call.log)].args)

\* C1: on the Arch path set_locale passes to `localectl set-locale` LANG
\* with the requested value and every other parameter that was set, with
\* the value it had: none is dropped or altered.
C1_SetKeepsOtherParams ==
    ArchSetDone =>
        /\ <<LANG, call.arg>> \in PassedToSetLocale
        /\ \A kv \in DictItems(before.sys) :
              kv[1] # LANG => kv \in PassedToSetLocale

\* The last two calls were a successful set_locale and then get_locale, on
\* one of the Debian, RedHat and Arch paths.
SetThenGet ==
    /\ os_family \in {"Debian", "RedHat", "Arch"}
    /\ call.op = "get_locale"
    /\ before.call.op = "set_locale"
    /\ ~before.call.raised
    /\ before.call.val

\* C2: get_locale after a successful set_locale(L) returns exactly L.
C2_SetThenGetRoundTrip ==
    SetThenGet => ~call.raised /\ call.text = before.call.arg

\* The last two calls were set_locale with the same locale, on one of the
\* RedHat and Debian paths, and neither raised.
SetTwice ==
    /\ os_family \in {"RedHat", "Debian"}
    /\ call.op = "set_locale"
    /\ before.call.op = "set_locale"
    /\ before.call.arg = call.arg
    /\ ~call.raised
    /\ ~before.call.raised

\* C3: on the RedHat and Debian paths the second of two set_locale calls
\* with the same locale leaves the configuration file as the first left it.
C3_SetLocaleIdempotent == SetTwice => fs = before.fs

\* The second call found a file of several lines already holding the line.
C3_Witness ==
    /\ SetTwice
    /\ os_family = "RedHat"
    /\ Len(fs.i18n.lines) > 1
    /\ call.arg # <<>>

\* C4: get_locale never raises, whatever the command printed, and returns
\* the empty string when the output holds no value (no '=').
C4_GetLocaleNeverRaises ==
    call.op = "get_locale" =>
        /\ ~call.raised
        /\ (os_family # "Gentoo" /\ IndexOf(input, "=") = 0) => call.text = <<>>

\* The last call was set_locale on the Debian path.
DebianSet == os_family = "Debian" /\ call.op = "set_locale"

HoldsLine(f, line) == f.exists /\ \E i \in 1..Len(f.lines) : f.lines[i] = line

\* C8: on the Debian path, without update-locale set_locale raises, having
\* run nothing and changed no file; with it, update-locale is run, then the
\* file is edited, the file ends holding LANG="<locale>" and the call
\* returns true.
C8_DebianUpdateLocale ==
    DebianSet =>
        IF "update-locale" \notin tools
        THEN call.raised /\ call.log = <<>> /\ fs = before.fs
        ELSE /\ ~call.raised
             /\ call.val
             /\ Len(call.log) = 2
             /\ call.log[1] = Entry("cmd.run", "update-locale", <<>>)
             /\ call.log[2].fn = "file.replace"
             /\ HoldsLine(fs.default_locale, LangLine(call.arg))

\* set_locale failed fast on a Debian host whose file holds lines.
C8_Witness ==
    /\ DebianSet
    /\ "update-locale" \notin tools
    /\ call.raised
    /\ fs.default_locale.lines # <<>>

\* The permutations of 1..n.
Perms(n) == {p \in [1..n -> 1..n] : \A i, j \in 1..n : p[i] = p[j] => i = j}

Permuted(l, p) == [i \in 1..Len(l) |-> l[p[i]]]

\* C5: avail(locale) is true exactly when some entry of the list, trimmed
\* and normalized, equals the normalized request, and it is the same for
\* every order of the list.
C5_AvailIffSomeEntry ==
    call.op = "avail" =>
        LET entries == list_avail(input)
            wanted == normalize_locale(call.arg)
        IN  /\ call.val <=> \E i \in 1..Len(entries) :
                               normalize_locale(Strip(entries[i])) = wanted
            /\ \A p \in Perms(Len(entries)) :
                  avail(call.arg, Permuted(entries, p)) = call.val

\* avail found the request, spelled differently, as the last of several
\* entries, the padded one.
C5_Witness ==
    /\ call.op = "avail"
    /\ call.val
    /\ LET entries == list_avail(input)
       IN  /\ Len(entries) > 1
           /\ entries[Len(entries)] # Strip(entries[Len(entries)])
           /\ \A i \in 1..Len(entries) : entries[i] # call.arg
           /\ ~avail(call.arg, SubSeq(entries, 1, Len(entries) - 1))

(***************************************************************************)
(* Properties of gen_locale.                                               *)
(***************************************************************************)
GenCalled == call.op = "gen_locale"
GenDone == GenCalled /\ gen.pc = "done"

\* gen_locale returned the boolean false.
ReturnedFalse ==
    GenDone /\ ~call.raised /\ gen.kind = "bool" /\ ~call.val

\* The locale with its codeset as charmap.
WithCodesetAsCharmap(locale) ==
    LET info == split_locale(locale)
    IN  join_locale([info EXCEPT !.charmap = info.codeset])

\* Neither the requested locale nor its fallback is a line of SUPPORTED.
NotSupported(locale) ==
    /\ ~HoldsLine(fs.supported, locale)
    /\ ~HoldsLine(fs.supported, WithCodesetAsCharmap(locale))

\* C6: on Debian and Gentoo, once validation is over, a locale that is no
\* line of SUPPORTED, and whose fallback is none either, has made
\* gen_locale return false without raising.
C6_UnsupportedReturnsFalse ==
    (/\ GenCalled
     /\ on_debian \/ on_gentoo
     /\ gen.pc # "validate"
     /\ NotSupported(call.arg)) => ReturnedFalse

NoCompiler == "locale-gen" \notin tools /\ "localedef" \notin tools

RaisedNotFound ==
    GenDone /\ call.raised /\ gen.error = "command was not found"

\* C7 as stated: a gen_locale call that ended on a host with neither
\* locale-gen nor localedef raised the error.
C7_RaisesWithoutCompiler == (GenDone /\ NoCompiler) => RaisedNotFound

\* The edit that registers the locale raised.
RegisterRaised ==
    GenDone /\ gen.valid /\ call.raised /\ gen.error = PATTERN_ERROR

\* C7 amended: a gen_locale call that ended on a host with neither
\* locale-gen nor localedef raised exactly when the locale passed
\* validation, and the error is the 'not found' one unless the edit that
\* registers the locale had raised already; no call raised the 'not found'
\* error on another host or for a locale that failed validation.
C7_RaisesWhenValidWithoutCompiler ==
    GenDone =>
        /\ RaisedNotFound <=> (gen.valid /\ NoCompiler /\ ~RegisterRaised)
        /\ (gen.valid /\ NoCompiler) => call.raised

\* The error was raised for a locale found by the fallback search, after
\* /etc/locale.gen was edited.
C7_Witness ==
    /\ RaisedNotFound
    /\ NoCompiler
    /\ gen.locale # call.arg
    /\ fs # before.fs

\* The compile command has been run.
Compiled ==
    \E i \in 1..Len(call.log) : call.log[i].fn = "cmd.run_all"

\* C9: once the compile command has run, gen_locale does not raise; with
\* verbose it returns the result of the command, else the boolean
\* "the retcode is 0".
C9_ReturnAfterCompile ==
    (GenCalled /\ Compiled) =>
        /\ gen.pc = "done"
        /\ ~call.raised
        /\ gen.verbose => gen.kind = "res"
        /\ ~gen.verbose => gen.kind = "bool" /\ (call.val <=> gen.retcode = 0)

\* The command ended with a nonzero retcode and verbose was not asked for.
C9_Witness ==
    /\ GenCalled
    /\ Compiled
    /\ gen.retcode # 0
    /\ ~gen.verbose
    /\ ~call.val

\* The positions in the log of the entries of the given collaborators.
LogAt(fns) == {i \in 1..Len(call.log) : call.log[i].fn \in fns}

Validations == LogAt({"file.search", "os.listdir"})
Registrations == LogAt({"file.replace", "file.touch"})
Compilations == LogAt({"cmd.run_all"})

\* C10: in a gen_locale call nothing is edited, touched or compiled unless
\* validation succeeded; validation comes before registration and
\* registration before compilation; a call that returned false for an
\* unsupported locale, or raised the directory error, changed no file.
C10_ValidateRegisterCompile ==
    GenCalled =>
        /\ (fs # before.fs \/ Registrations # {} \/ Compilations # {})
              => gen.valid
        /\ \A v \in Validations, r \in Registrations : v < r
        /\ \A r \in Registrations, c \in Compilations : r < c
        /\ \A v \in Validations, c \in Compilations : v < c
        /\ (Registrations # {} \/ Compilations # {}) => Validations # {}
        /\ (GenDone /\ ~gen.valid) => fs = before.fs

\* A call validated, edited a file and ran the compile command.
C10_Witness ==
    /\ GenDone
    /\ Validations # {}
    /\ Registrations # {}
    /\ Compilations # {}
    /\ fs # before.fs

====
